---- MODULE Spec2Model ----
(***************************************************************************)
(* Model of the AM station registry adapters:                              *)
(*   parseStationData          (utils/stationParser.js,  fixed-width US)   *)
(*   parseCanadianStationData  (utils/canadianParser.js, 7-column CSV)     *)
(*                                                                         *)
(* A JavaScript string is a sequence of one-character strings, indexed     *)
(* from 0 in the operators that take JavaScript indices.  A JavaScript     *)
(* number is an exact rational [nan, n, d] in lowest terms, or NaN.        *)
(***************************************************************************)
EXTENDS Integers, Sequences, FiniteSets, TLC

----------------------------------------------------------------------------
(* Bounds of the checked inputs.                                           *)

MaxLines == 2
MaxRows == 2

----------------------------------------------------------------------------
(* JavaScript numbers.                                                     *)

Abs(x) == IF x < 0 THEN -x ELSE x

RECURSIVE GCD(_, _)
GCD(a, b) == IF b = 0 THEN a ELSE GCD(b, a % b)

NaN == [nan |-> TRUE, n |-> 0, d |-> 1]

Num(n, d) ==
  LET g == GCD(Abs(n), d)
  IN  [nan |-> FALSE, n |-> n \div g, d |-> d \div g]

IntNum(k) == Num(k, 1)

isNaN(x) == x.nan

NumAdd(x, y) ==
  IF x.nan \/ y.nan THEN NaN ELSE Num(x.n * y.d + y.n * x.d, x.d * y.d)

NumDiv(x, k) == IF x.nan THEN NaN ELSE Num(x.n, x.d * k)

NumMul(x, k) == IF x.nan THEN NaN ELSE Num(x.n * k, x.d)

NumNeg(x) == IF x.nan THEN NaN ELSE Num(-x.n, x.d)

\* x < y, x > y, x = y on numbers: every comparison with NaN is false
NumLt(x, y) == ~x.nan /\ ~y.nan /\ x.n * y.d < y.n * x.d

NumGt(x, y) == NumLt(y, x)

NumEq(x, y) == ~x.nan /\ ~y.nan /\ x.n * y.d = y.n * x.d

NumLe(x, y) == NumLt(x, y) \/ NumEq(x, y)

\* Math.round: nearest integer, halves towards +infinity
MathRound(x) == IF x.nan THEN NaN ELSE IntNum((2 * x.n + x.d) \div (2 * x.d))

----------------------------------------------------------------------------
(* JavaScript strings.                                                     *)

WhiteSpace == {" ", "\t", "\n", "\r"}

DigitChars == <<"0", "1", "2", "3", "4", "5", "6", "7", "8", "9">>

IsDigit(c) == \E k \in 1..10 : DigitChars[k] = c

DigitVal(c) == (CHOOSE k \in 1..10 : DigitChars[k] = c) - 1

Clamp(k, len) == IF k < 0 THEN 0 ELSE IF k > len THEN len ELSE k

\* s.substring(a, b): both indices clamped to [0, length], swapped if a > b
Substring(s, a, b) ==
  LET ca == Clamp(a, Len(s))
      cb == Clamp(b, Len(s))
  IN  IF ca <= cb THEN SubSeq(s, ca + 1, cb) ELSE SubSeq(s, cb + 1, ca)

\* first 1-based position >= i of s that is not white space, Len(s)+1 if none
RECURSIVE SkipWS(_, _)
SkipWS(s, i) ==
  IF i > Len(s) THEN Len(s) + 1
  ELSE IF s[i] \in WhiteSpace THEN SkipWS(s, i + 1) ELSE i

\* last 1-based position <= i of s that is not white space, 0 if none
RECURSIVE SkipWSBack(_, _)
SkipWSBack(s, i) ==
  IF i < 1 THEN 0
  ELSE IF s[i] \in WhiteSpace THEN SkipWSBack(s, i - 1) ELSE i

\* s.trim()
Trim(s) == SubSeq(s, SkipWS(s, 1), SkipWSBack(s, Len(s)))

\* s.indexOf(pat, from): 0-based position of the first occurrence at or
\* after from (negative from counts as 0), -1 if there is none
IndexOf(s, pat, from) ==
  LET lo == IF from < 0 THEN 0 ELSE from
      hits == {k \in lo..(Len(s) - Len(pat)) : SubSeq(s, k + 1, k + Len(pat)) = pat}
  IN  IF hits = {} THEN -1 ELSE CHOOSE k \in hits : \A j \in hits : k <= j

\* s.includes(pat)
Includes(s, pat) == IndexOf(s, pat, 0) # -1

\* s.split(c) for a one-character separator c
RECURSIVE Split(_, _)
Split(s, c) ==
  LET k == IndexOf(s, <<c>>, 0)
  IN  IF k = -1 THEN <<s>>
      ELSE <<SubSeq(s, 1, k)>> \o Split(SubSeq(s, k + 2, Len(s)), c)

\* first 1-based position >= i of s that is white space, Len(s)+1 if none
RECURSIVE FindWS(_, _)
FindWS(s, i) ==
  IF i > Len(s) THEN Len(s) + 1
  ELSE IF s[i] \in WhiteSpace THEN i ELSE FindWS(s, i + 1)

\* s.split(/\s+/)
RECURSIVE SplitWS(_)
SplitWS(s) ==
  LET k == FindWS(s, 1)
  IN  IF k > Len(s) THEN <<s>>
      ELSE <<SubSeq(s, 1, k - 1)>> \o SplitWS(SubSeq(s, SkipWS(s, k), Len(s)))

\* s.replace(/"/g, '')
RECURSIVE StripQuotes(_)
StripQuotes(s) ==
  IF s = <<>> THEN <<>>
  ELSE IF Head(s) = "\"" THEN StripQuotes(Tail(s))
  ELSE <<Head(s)>> \o StripQuotes(Tail(s))

\* number of leading decimal digits of s from 1-based position i
RECURSIVE DigitRun(_, _)
DigitRun(s, i) ==
  IF i <= Len(s) /\ IsDigit(s[i]) THEN 1 + DigitRun(s, i + 1) ELSE 0

\* value of the decimal digits s[i..j]
RECURSIVE DigitsValue(_, _, _)
DigitsValue(s, i, j) ==
  IF j < i THEN 0 ELSE 10 * DigitsValue(s, i, j - 1) + DigitVal(s[j])

RECURSIVE Pow10(_)
Pow10(k) == IF k = 0 THEN 1 ELSE 10 * Pow10(k - 1)

\* parseInt(s): leading white space, optional sign, decimal digits; the rest
\* of s is ignored; NaN when there is no digit.  (No checked input has a
\* 0x prefix.)
parseInt(s) ==
  LET p == SkipWS(s, 1)
      signed == p <= Len(s) /\ s[p] \in {"-", "+"}
      q == IF signed THEN p + 1 ELSE p
      k == DigitRun(s, q)
      v == DigitsValue(s, q, q + k - 1)
  IN  IF k = 0 THEN NaN
      ELSE IF signed /\ s[p] = "-" THEN IntNum(-v) ELSE IntNum(v)

\* parseFloat(s): leading white space, optional sign, digits, optional
\* fraction; the rest of s is ignored; NaN when there is no digit.  (No
\* checked input has an exponent or spells Infinity.)
parseFloat(s) ==
  LET p == SkipWS(s, 1)
      signed == p <= Len(s) /\ s[p] \in {"-", "+"}
      q == IF signed THEN p + 1 ELSE p
      k == DigitRun(s, q)
      dot == q + k <= Len(s) /\ s[q + k] = "."
      f == IF dot THEN DigitRun(s, q + k + 1) ELSE 0
      ip == DigitsValue(s, q, q + k - 1)
      fp == DigitsValue(s, q + k + 1, q + k + f)
      v == Num(ip * Pow10(f) + fp, Pow10(f))
  IN  IF k = 0 /\ f = 0 THEN NaN
      ELSE IF signed /\ s[p] = "-" THEN NumNeg(v) ELSE v

\* decimal digits of a natural number
RECURSIVE NatToString(_)
NatToString(k) ==
  IF k < 10 THEN <<DigitChars[k + 1]>>
  ELSE NatToString(k \div 10) \o <<DigitChars[(k % 10) + 1]>>

\* `${x}` for x the result of Math.round
NumToString(x) ==
  IF x.nan THEN <<"N", "a", "N">>
  ELSE IF x.n < 0 THEN <<"-">> \o NatToString(-x.n)
  ELSE NatToString(x.n)

----------------------------------------------------------------------------
(* parseStationData: the fixed-width US adapter.                           *)

MinLineLen == 250

Daytime == <<"D", "a", "y", "t", "i", "m", "e">>

UsAnchor == <<" ", "U", "S", " ">>

NAnchor == <<" ", "N", " ", " ">>

WAnchor == <<" ", "W", " ", " ">>

KwMarker == <<"k", "W">>

\* s.search(/\s{2,}|\d{2,}/): 0-based position of the first run of two
\* white-space characters or of two digits, -1 if there is none
SearchStop(s) ==
  LET hits == {k \in 1..(Len(s) - 1) :
                 \/ s[k] \in WhiteSpace /\ s[k + 1] \in WhiteSpace
                 \/ IsDigit(s[k]) /\ IsDigit(s[k + 1])}
  IN  IF hits = {} THEN -1 ELSE (CHOOSE k \in hits : \A j \in hits : k <= j) - 1

\* the operator field of a line whose " W  " anchor is at wIndex
UsOperator(line, wIndex) ==
  LET operatorStart == wIndex + 20
      operatorStr == Trim(Substring(line, operatorStart, operatorStart + 80))
      cut == Trim(Substring(operatorStr, 0, SearchStop(operatorStr)))
  IN  IF cut # <<>> THEN cut ELSE Trim(Substring(operatorStr, 0, 60))

\* the power of a line whose " US " anchor is at usIndex, before the
\* isNaN guard of the record literal
UsPower(line, usIndex) ==
  LET kwIndex == IndexOf(line, KwMarker, usIndex)
      toks == SplitWS(Trim(Substring(line, kwIndex - 20, kwIndex)))
  IN  IF kwIndex > 0 THEN parseFloat(toks[Len(toks)]) ELSE IntNum(0)

DecimalMinutesAsSeconds(deg, min, sec) ==
  NumAdd(NumAdd(deg, NumDiv(min, 3600)), NumDiv(sec, 3600))

\* deg + min / 60 + sec / 3600
Decimal(deg, min, sec) == NumAdd(NumAdd(deg, NumDiv(min, 60)), NumDiv(sec, 3600))

\* the two columnar fields
UsCallSign(line) == Trim(Substring(line, 1, 14))

UsFrequency(line) == Trim(Substring(line, 14, 23))

UsNeverDuplicate(callSign, seenIn) == FALSE

\* seen.has(callSign)
UsIsDuplicate(callSign, seenIn) == callSign \in seenIn

\* the guard "Validate coordinates"
UsCoordsInvalid(latDeg, lonDeg) ==
  \/ isNaN(latDeg) \/ isNaN(lonDeg)
  \/ NumLt(latDeg, IntNum(0)) \/ NumGt(latDeg, IntNum(90))
  \/ NumLt(lonDeg, IntNum(0)) \/ NumGt(lonDeg, IntNum(180))

UsPowerRaw(power) == power

\* power: isNaN(power) ? 0 : power
UsPowerField(power) == IF isNaN(power) THEN IntNum(0) ELSE power

UsIdSwapped(callSign, frequency) == frequency \o <<"-">> \o callSign

\* id: `${callSign}-${frequency}`
UsId(callSign, frequency) == callSign \o <<"-">> \o frequency

UsPushedTwice(station) == <<station, station>>

\* stations.push(station): what one iteration appends to stations
UsPushed(station) == <<station>>

\* One iteration of the loop over the lines: the records it pushes (none or
\* one) and the seen set it leaves.
UsLine(line, seenIn) ==
  LET callSign == UsCallSign(line)
      frequency == UsFrequency(line)
      usIndex == IndexOf(line, UsAnchor, 0)
      state == Trim(Substring(line, usIndex - 3, usIndex - 1))
      city == Trim(Substring(line, usIndex - 30, usIndex - 3))
      nIndex == IndexOf(line, NAnchor, usIndex)
      wIndex == IndexOf(line, WAnchor, nIndex)
      latParts == SplitWS(Trim(Substring(line, nIndex + 4, wIndex)))
      lonParts == SplitWS(Trim(Substring(line, wIndex + 4, wIndex + 20)))
      latDeg == parseInt(latParts[1])
      latMin == parseInt(latParts[2])
      latSec == parseFloat(latParts[3])
      lonDeg == parseInt(lonParts[1])
      lonMin == parseInt(lonParts[2])
      lonSec == parseFloat(lonParts[3])
      power == UsPower(line, usIndex)
      station == [callSign |-> callSign,
                  frequency |-> frequency,
                  power |-> UsPowerField(power),
                  city |-> city,
                  state |-> state,
                  lat |-> Decimal(latDeg, latMin, latSec),
                  lon |-> NumNeg(Decimal(lonDeg, lonMin, lonSec)),
                  operator |-> UsOperator(line, wIndex),
                  id |-> UsId(callSign, frequency)]
      skip == [push |-> <<>>, seen |-> seenIn]
      drop == [push |-> <<>>, seen |-> seenIn \cup {callSign}]
  IN  IF Trim(line) = <<>> \/ Len(line) < MinLineLen THEN skip
      ELSE IF ~Includes(line, Daytime) THEN skip
      ELSE IF UsIsDuplicate(callSign, seenIn) THEN skip
      ELSE IF usIndex = -1 THEN drop
      ELSE IF nIndex = -1 \/ wIndex = -1 THEN drop
      ELSE IF Len(latParts) < 3 THEN drop
      ELSE IF Len(lonParts) < 3 THEN drop
      ELSE IF UsCoordsInvalid(latDeg, lonDeg) THEN drop
      ELSE [push |-> UsPushed(station), seen |-> seenIn \cup {callSign}]

----------------------------------------------------------------------------
(* The checked inputs of parseStationData.  A registry entry is given field  *)
(* by field; a numeric token carries the number it denotes (NaN if none).    *)
(* UsText lays the entries out as the fixed-width text the adapter reads.    *)

Tok(txt, val) == [txt |-> txt, val |-> val]

PadRight(s, w) == s \o [k \in 1..(w - Len(s)) |-> " "]

Filler(w) == [k \in 1..w |-> "."]

RECURSIVE Join(_, _)
Join(parts, sep) ==
  IF parts = <<>> THEN <<>>
  ELSE IF Len(parts) = 1 THEN parts[1]
  ELSE parts[1] \o sep \o Join(Tail(parts), sep)

TokTexts(toks) == [k \in 1..Len(toks) |-> toks[k].txt]

UsBase ==
  [lead |-> "|", callSign |-> <<"W", "A", "B", "C">>, frequency |-> <<"7", "7", "0", " ", " ", " ", "k", "H", "z">>,
   band |-> <<"D", "a", "y", "t", "i", "m", "e">>, city |-> <<"N", "e", "w", " ", "Y", "o", "r", "k">>, state |-> <<"N", "Y">>,
   country |-> <<" ", "U", "S", " ">>, nMark |-> <<" ", "N", " ", " ">>,
   lat |-> <<Tok(<<"4", "0">>, IntNum(40)), Tok(<<"4", "6">>, IntNum(46)), Tok(<<"0", ".", "0">>, IntNum(0))>>,
   lon |-> <<Tok(<<"7", "3">>, IntNum(73)), Tok(<<"5", "8">>, IntNum(58)), Tok(<<"3", "0", ".", "5">>, Num(61, 2))>>,
   operator |-> <<"A", "B", "C", " ", "R", "a", "d", "i", "o", " ", "I", "n", "c">>, opCut |-> <<"A", "B", "C", " ", "R", "a", "d", "i", "o", " ", "I", "n", "c">>, power |-> Tok(<<"5", "0", ".", "0">>, IntNum(50)),
   unit |-> <<"k", "W">>, tail |-> "|", len |-> MinLineLen]

UsOther ==
  [UsBase EXCEPT !.callSign = <<"K", "F", "I">>, !.frequency = <<"6", "4", "0", " ", " ", " ", "k", "H", "z">>,
                 !.city = <<"L", "o", "s", " ", "A", "n", "g", "e", "l", "e", "s">>, !.state = <<"C", "A">>,
                 !.lat = <<Tok(<<"3", "4">>, IntNum(34)), Tok(<<"3">>, IntNum(3)), Tok(<<"7", ".", "9">>, Num(79, 10))>>,
                 !.lon = <<Tok(<<"1", "1", "8">>, IntNum(118)), Tok(<<"1", "4">>, IntNum(14)), Tok(<<"3", "7", ".", "2">>, Num(186, 5))>>,
                 !.operator = <<"K", "F", "I", " ", "L", "i", "c", "e", "n", "s", "e", "s", " ", "L", "L", "C">>, !.opCut = <<"K", "F", "I", " ", "L", "i", "c", "e", "n", "s", "e", "s", " ", "L", "L", "C">>,
                 !.power = Tok(<<"5", ".", "0">>, IntNum(5))]

UsEntries ==
  { UsBase, UsOther,
    [UsBase EXCEPT !.frequency = <<"8", "8", "0", " ", " ", " ", "k", "H", "z">>, !.operator = <<"S", "e", "c", "o", "n", "d", " ", "O", "w", "n", "e", "r">>,
                   !.opCut = <<"S", "e", "c", "o", "n", "d", " ", "O", "w", "n", "e", "r">>,
                   !.lat[2] = Tok(<<"7", "7">>, IntNum(77)), !.lon[3] = Tok(<<"0", ".", "0">>, IntNum(0))],
    [UsBase EXCEPT !.band = <<"N", "i", "g", "h", "t", "t", "i", "m", "e">>],
    [UsBase EXCEPT !.country = <<" ", "C", "A", " ">>],
    [UsBase EXCEPT !.nMark = <<" ", "n", " ", " ">>],
    [UsBase EXCEPT !.len = MinLineLen - 1],
    [UsBase EXCEPT !.len = 10],
    [UsBase EXCEPT !.lead = " "],
    [UsBase EXCEPT !.tail = " "],
    [UsBase EXCEPT !.lead = " ", !.len = MinLineLen + 1],
    [UsBase EXCEPT !.lat[1] = Tok(<<"9", "1">>, IntNum(91))],
    [UsBase EXCEPT !.lat[1] = Tok(<<"x", "x">>, NaN)],
    [UsBase EXCEPT !.lat[1] = Tok(<<"9", "0">>, IntNum(90)), !.lat[2] = Tok(<<"3", "0">>, IntNum(30))],
    [UsBase EXCEPT !.lat[2] = Tok(<<"x", "x">>, NaN)],
    [UsBase EXCEPT !.lat = <<Tok(<<"4", "0">>, IntNum(40)), Tok(<<"4", "6">>, IntNum(46))>>],
    [UsBase EXCEPT !.lon[1] = Tok(<<"1", "8", "1">>, IntNum(181))],
    [UsBase EXCEPT !.lon[1] = Tok(<<"0">>, IntNum(0)), !.lon[2] = Tok(<<"-", "3", "0">>, IntNum(-30))],
    [UsBase EXCEPT !.lon[3] = Tok(<<"x">>, NaN)],
    [UsBase EXCEPT !.lon = <<Tok(<<"7", "3">>, IntNum(73)), Tok(<<"5", "8">>, IntNum(58))>>],
    [UsBase EXCEPT !.power = Tok(<<"a", "b", "c">>, NaN)],
    [UsBase EXCEPT !.power = Tok(<<"-", "5", ".", "0">>, IntNum(-5))],
    [UsBase EXCEPT !.unit = <<"W">>],
    [UsOther EXCEPT !.callSign = <<"K", "X", "-", "A", "M">>, !.frequency = <<"5", "4", "0">>,
                    !.operator = <<"1", "0", "1", "0", " ", "W", "I", "N", "S", " ", "R", "a", "d", "i", "o">>, !.opCut = <<>>],
    [UsOther EXCEPT !.callSign = <<"K", "X">>, !.frequency = <<"A", "M", "-", "5", "4", "0">>,
                    !.operator = <<"R", "a", "d", "i", "o", " ", "1", "0", "4", " ", "I", "n", "c">>, !.opCut = <<"R", "a", "d", "i", "o">>] }

\* one entry as a fixed-width line of e.len characters (cut off at e.len
\* when the fields are longer)
UsRender(e) ==
  LET body == <<e.lead>> \o PadRight(e.callSign, 13) \o PadRight(e.frequency, 9)
                \o <<"A", "M", " ">> \o PadRight(e.band, 10)
                \o PadRight(e.city, 27) \o e.state \o <<" ">> \o e.country
                \o <<"B", "L", "-", "1">> \o e.nMark \o Join(TokTexts(e.lat), <<" ">>)
                \o <<" ", "W", " ", " ">> \o PadRight(Join(TokTexts(e.lon), <<" ">>), 16)
                \o e.operator \o <<" ", " ">> \o e.power.txt \o <<" ">> \o e.unit
  IN  IF e.len <= Len(body) THEN SubSeq(body, 1, e.len)
      ELSE body \o Filler(e.len - 1 - Len(body)) \o <<e.tail>>

UsText(entries) == Join([k \in 1..Len(entries) |-> UsRender(entries[k])], <<"\n">>)

UsInputs == UNION {[1..n -> UsEntries] : n \in 0..MaxLines}

----------------------------------------------------------------------------
(* parseCanadianStationData: the 7-column CSV adapter.  The Map is the      *)
(* sequence of its values in insertion order; set() on a present key keeps  *)
(* the key's position.                                                      *)

CallSignHeader == <<"C", "a", "l", "l", " ", "s", "i", "g", "n">>

DefaultLicensee == <<"C", "a", "n", "a", "d", "i", "a", "n", " ", "B", "r", "o", "a", "d", "c", "a", "s", "t", "e", "r">>

KhzSuffix == <<" ", " ", " ", "k", "H", "z">>

\* line.split(',').map(col => col.replace(/"/g, '').trim())
CaColumns(line) ==
  LET raw == Split(line, ",")
  IN  [k \in 1..Len(raw) |-> Trim(StripQuotes(raw[k]))]

\* `${Math.round(frequencyMHz * 1000)}   kHz`
CaFrequency(frequencyMHz) ==
  NumToString(MathRound(NumMul(frequencyMHz, 1000))) \o KhzSuffix

\* stationMap.get(key): the position of the record stored under key, 0 if none
MapGet(map, key) ==
  IF \E k \in 1..Len(map) : map[k].id = key
  THEN CHOOSE k \in 1..Len(map) : map[k].id = key
  ELSE 0

\* the guard "Validate coordinates and data (skip 0,0 coordinates)"
CaInvalid(lat, lon, power, callSign) ==
  \/ isNaN(lat) \/ isNaN(lon) \/ isNaN(power) \/ callSign = <<>>
  \/ (NumEq(lat, IntNum(0)) /\ NumEq(lon, IntNum(0)))

CaReplacesOnTie(power, existingPower) == ~NumLt(power, existingPower)

\* power > existing.power
CaReplaces(power, existingPower) == NumGt(power, existingPower)

\* callSign.split('-')[0]
CaBaseCallSign(callSign) == Split(callSign, "-")[1]

\* One iteration of the loop over the rows: the Map it leaves and the
\* position it stored a record at (0 if it stored none).
CaLine(line, mapIn) ==
  LET columns == CaColumns(line)
      frequencyMHz == parseFloat(columns[2])
      powerW == parseFloat(columns[3])
      callSign == columns[4]
      lat == parseFloat(columns[5])
      lon == parseFloat(columns[6])
      licensee == IF columns[7] # <<>> THEN columns[7] ELSE DefaultLicensee
      frequency == CaFrequency(frequencyMHz)
      power == NumDiv(powerW, 1000)
      baseCallSign == CaBaseCallSign(callSign)
      uniqueKey == baseCallSign \o <<"-">> \o frequency
      existing == MapGet(mapIn, uniqueKey)
      station == [callSign |-> baseCallSign,
                  frequency |-> frequency,
                  power |-> power,
                  city |-> <<"C", "a", "n", "a", "d", "a">>,
                  state |-> <<"C", "A">>,
                  lat |-> lat,
                  lon |-> lon,
                  operator |-> licensee,
                  id |-> uniqueKey]
      keep == [map |-> mapIn, at |-> 0]
  IN  IF Trim(line) = <<>> THEN keep
      ELSE IF Len(columns) >= 4 /\ columns[4] = CallSignHeader THEN keep
      ELSE IF Len(columns) < 7 THEN keep
      ELSE IF CaInvalid(lat, lon, power, callSign) THEN keep
      ELSE IF existing = 0
           THEN [map |-> Append(mapIn, station), at |-> Len(mapIn) + 1]
      ELSE IF CaReplaces(power, mapIn[existing].power)
           THEN [map |-> [mapIn EXCEPT ![existing] = station], at |-> existing]
      ELSE keep

----------------------------------------------------------------------------
(* The checked inputs of parseCanadianStationData.  A row is given column   *)
(* by column; khz and base are the kHz digits and the base call sign the    *)
(* row denotes.  Every text starts with the header row.                     *)

CaHeader == <<"C", "h", "a", "n", "n", "e", "l", " ", "T", "y", "p", "e", ",", "F", "r", "e", "q", "u", "e", "n", "c", "y", ",", "P", "o", "w", "e", "r", ",", "C", "a", "l", "l", " ", "s", "i", "g", "n", ",", "L", "a", "t", ",", "L", "o", "n", ",", "L", "i", "c", "e", "n", "s", "e", "e">>

CaBase ==
  [kind |-> "data", quoted |-> FALSE, ncols |-> 7,
   freq |-> Tok(<<"0", ".", "5", "4">>, Num(54, 100)), khz |-> <<"5", "4", "0">>,
   power |-> Tok(<<"5", "0", "0", "0", "0">>, IntNum(50000)),
   callSign |-> <<"C", "B", "C">>, base |-> <<"C", "B", "C">>,
   lat |-> Tok(<<"4", "5", ".", "5">>, Num(91, 2)), lon |-> Tok(<<"-", "7", "5", ".", "5">>, Num(-151, 2)),
   licensee |-> <<"C", "B", "C", " ", "R", "a", "d", "i", "o">>]

CaOther ==
  [CaBase EXCEPT !.freq = Tok(<<"1", ".", "0", "1">>, Num(101, 100)), !.khz = <<"1", "0", "1", "0">>,
                 !.power = Tok(<<"1", "0", "0", "0", "0">>, IntNum(10000)),
                 !.callSign = <<"C", "F", "R", "B">>, !.base = <<"C", "F", "R", "B">>,
                 !.lat = Tok(<<"4", "3", ".", "6">>, Num(218, 5)), !.lon = Tok(<<"-", "7", "9", ".", "4">>, Num(-397, 5)),
                 !.licensee = <<>>]

CaEntries ==
  { CaBase, CaOther,
    [CaBase EXCEPT !.power = Tok(<<"1", "0", "0", "0", "0", "0">>, IntNum(100000)), !.callSign = <<"C", "B", "C", "-", "A", "X", "1">>,
                   !.lat = Tok(<<"4", "6">>, IntNum(46)), !.licensee = <<"S", "t", "r", "o", "n", "g", "e", "r", " ", "C", "o">>],
    [CaBase EXCEPT !.freq = Tok(<<"0", ".", "5", "4", "0", "4">>, Num(5404, 10000)),
                   !.lat = Tok(<<"4", "7">>, IntNum(47)), !.licensee = <<"E", "q", "u", "a", "l", " ", "C", "o">>],
    [CaBase EXCEPT !.power = Tok(<<"2", "5", "0", ".", "5">>, Num(501, 2)), !.licensee = <<"W", "e", "a", "k", "e", "r", " ", "C", "o">>],
    [CaOther EXCEPT !.quoted = TRUE, !.freq = Tok(<<"0", ".", "7", "4", "0", "6">>, Num(7406, 10000)),
                    !.khz = <<"7", "4", "1">>, !.licensee = <<"Q", "u", "o", "t", "e", "d", " ", "C", "o">>],
    [CaBase EXCEPT !.kind = "header"],
    [CaBase EXCEPT !.kind = "blank"],
    [CaBase EXCEPT !.ncols = 6],
    [CaBase EXCEPT !.power = Tok(<<"a", "b", "c">>, NaN)],
    [CaBase EXCEPT !.power = Tok(<<"-", "1", "0", "0">>, IntNum(-100))],
    [CaBase EXCEPT !.lat = Tok(<<"x">>, NaN)],
    [CaBase EXCEPT !.lon = Tok(<<>>, NaN)],
    [CaBase EXCEPT !.lat = Tok(<<"0">>, IntNum(0)), !.lon = Tok(<<"0", ".", "0">>, IntNum(0))],
    [CaBase EXCEPT !.lat = Tok(<<"0">>, IntNum(0))],
    [CaBase EXCEPT !.lat = Tok(<<"9", "5">>, IntNum(95))],
    [CaBase EXCEPT !.callSign = <<>>, !.base = <<>>],
    [CaBase EXCEPT !.callSign = <<"-", "A", "X", "1">>, !.base = <<>>],
    [CaBase EXCEPT !.freq = Tok(<<"a", "b", "c">>, NaN), !.khz = <<"N", "a", "N">>] }

Quote(s, q) == IF q THEN <<"\"">> \o s \o <<"\"">> ELSE s

\* one row as CSV text
CaRender(e) ==
  LET cols == <<<<"A", "M">>, e.freq.txt, e.power.txt, e.callSign,
                e.lat.txt, e.lon.txt, e.licensee>>
  IN  IF e.kind = "header" THEN CaHeader
      ELSE IF e.kind = "blank" THEN <<" ", " ">>
      ELSE Join([k \in 1..e.ncols |-> Quote(cols[k], e.quoted)], <<",">>)

CaText(entries) ==
  Join(<<CaHeader>> \o [k \in 1..Len(entries) |-> CaRender(entries[k])], <<"\n">>)

CaInputs == UNION {[1..n -> CaEntries] : n \in 0..MaxRows}

----------------------------------------------------------------------------
(* One call of an adapter on one input text.                               *)

VARIABLES
  adapter,      \* "US": parseStationData, "CA": parseCanadianStationData
  src,          \* the registry entries the input text was laid out from
  fileContent,  \* the argument: fileContent / csvContent
  pc,           \* "start", "loop" or "done"
  lines,        \* const lines
  i,            \* position in lines of the next line of the loop, from 1
  seen,         \* const seen (US)
  stations,     \* const stations (US) / the values of stationMap (CA)
  origin,       \* for each element of stations, the position in lines of
                \* the line that stored it
  result,       \* the returned array, <<>> until the first call returns
  calls,        \* number of calls of the adapters made so far
  history,      \* the calls that were followed by another call: adapter,
                \* entries, argument and returned array of each
  appPc,        \* the load effect of App: "off", "effect" (not yet run),
                \* "fetchUs", "textUs", "fetchCa", "textCa" (the await
                \* loadData is suspended at), "done" (the try block ran to
                \* its end) or "failed" (the catch block ran)
  isMounted,    \* let isMounted of the load effect
  loading,      \* useState(true)
  error,        \* useState(null): "null" or the banner text
  appStations,  \* useState([]): stations of App
  usText,       \* const usText
  usStations,   \* const usStations
  caText,       \* const caText
  caStations,   \* const caStations
  setterCalls   \* the state setters loadData has invoked, in order

callVars == <<calls, history>>

appVars ==
  <<appPc, isMounted, loading, error, appStations, usText, usStations, caText,
    caStations, setterCalls>>

vars ==
  <<adapter, src, fileContent, pc, lines, i, seen, stations, origin, result,
    callVars, appVars>>

\* no call of an adapter has been followed by another one
FirstCall == calls = 1 /\ history = <<>>

\* App is not part of the run
AppOff ==
  /\ appPc = "off" /\ isMounted = FALSE /\ loading = TRUE /\ error = "null"
  /\ appStations = <<>> /\ usText = <<>> /\ usStations = <<>>
  /\ caText = <<>> /\ caStations = <<>> /\ setterCalls = <<>>

Init ==
  /\ adapter \in {"US", "CA"}
  /\ src \in (IF adapter = "US" THEN UsInputs ELSE CaInputs)
  /\ fileContent = (IF adapter = "US" THEN UsText(src) ELSE CaText(src))
  /\ pc = "start"
  /\ lines = <<>>
  /\ i = 0
  /\ seen = {}
  /\ stations = <<>>
  /\ origin = <<>>
  /\ result = <<>>
  /\ FirstCall
  /\ AppOff

\* the same with seen kept from the call before
UsStartSharedSeen ==
  /\ adapter = "US" /\ pc = "start"
  /\ lines' = Split(Trim(fileContent), "\n")
  /\ stations' = <<>>
  /\ origin' = <<>>
  /\ i' = 1
  /\ pc' = "loop"
  /\ UNCHANGED <<adapter, src, fileContent, seen, result, callVars, appVars>>

\* const lines = fileContent.trim().split('\n'); const stations = [];
\* const seen = new Set(); the US loop starts at the first line
UsStart ==
  /\ adapter = "US" /\ pc = "start"
  /\ lines' = Split(Trim(fileContent), "\n")
  /\ stations' = <<>>
  /\ seen' = {}
  /\ origin' = <<>>
  /\ i' = 1
  /\ pc' = "loop"
  /\ UNCHANGED <<adapter, src, fileContent, result, callVars, appVars>>

\* one iteration of for (const line of lines)
UsStep ==
  /\ adapter = "US" /\ pc = "loop" /\ i <= Len(lines)
  /\ LET r == UsLine(lines[i], seen)
     IN  /\ seen' = r.seen
         /\ stations' = stations \o r.push
         /\ origin' = origin \o [k \in 1..Len(r.push) |-> i]
  /\ i' = i + 1
  /\ UNCHANGED <<adapter, src, fileContent, pc, lines, result>>
  /\ UNCHANGED <<callVars, appVars>>

\* return stations
UsReturn ==
  /\ adapter = "US" /\ pc = "loop" /\ i > Len(lines)
  /\ result' = stations
  /\ pc' = "done"
  /\ UNCHANGED <<adapter, src, fileContent, lines, i, seen, stations, origin>>
  /\ UNCHANGED <<callVars, appVars>>

\* const lines = csvContent.trim().split('\n'); const stationMap = new
\* Map(); the Canadian loop skips the header row
CaStart ==
  /\ adapter = "CA" /\ pc = "start"
  /\ lines' = Split(Trim(fileContent), "\n")
  /\ stations' = <<>>
  /\ origin' = <<>>
  /\ i' = 2
  /\ pc' = "loop"
  /\ UNCHANGED <<adapter, src, fileContent, seen, result, callVars, appVars>>

\* one iteration of for (let i = 1; i < lines.length; i++)
CaStep ==
  /\ adapter = "CA" /\ pc = "loop" /\ i <= Len(lines)
  /\ LET r == CaLine(lines[i], stations)
     IN  /\ stations' = r.map
         /\ origin' = IF r.at = 0 THEN origin
                      ELSE IF r.at > Len(origin) THEN Append(origin, i)
                      ELSE [origin EXCEPT ![r.at] = i]
  /\ i' = i + 1
  /\ UNCHANGED <<adapter, src, fileContent, pc, lines, seen, result>>
  /\ UNCHANGED <<callVars, appVars>>

\* return Array.from(stationMap.values())
CaReturn ==
  /\ adapter = "CA" /\ pc = "loop" /\ i > Len(lines)
  /\ result' = stations
  /\ pc' = "done"
  /\ UNCHANGED <<adapter, src, fileContent, lines, i, seen, stations, origin>>
  /\ UNCHANGED <<callVars, appVars>>

Next == UsStart \/ UsStep \/ UsReturn \/ CaStart \/ CaStep \/ CaReturn

Spec == Init /\ [][Next]_vars

\* The control flow of the running call.  A call is synchronous: once
\* started it runs on, statement by statement, until it returns.
Runs ==
  \/ pc = "start" /\ pc' = "loop" /\ i' \in {1, 2}
  \/ pc = "loop" /\ i <= Len(lines) /\ pc' = pc /\ i' = i + 1
  \/ pc = "loop" /\ i > Len(lines) /\ pc' = "done" /\ i' = i

FairSpec == Spec /\ WF_<<pc, i>>(Runs)

----------------------------------------------------------------------------
(* Several calls of the adapters, one after the other, in one page.         *)

MaxCalls == 3

\* the argument of the first call
CallSources ==
  {<<"US", s>> : s \in {<<>>} \cup {<<e>> : e \in UsEntries}
                        \cup {<<UsBase, UsOther>>, <<UsOther, UsBase>>}}
  \cup {<<"CA", s>> : s \in {<<>>} \cup {<<e>> : e \in CaEntries}
                              \cup {<<CaBase, CaOther>>, <<CaOther, CaBase>>}}

\* arguments of later calls, besides those of the calls made so far
CallOthers == {<<"US", <<UsBase>>>>, <<"CA", <<CaBase>>>>}

InitCalls ==
  /\ \E c \in CallSources :
       /\ adapter = c[1]
       /\ src = c[2]
       /\ fileContent = (IF c[1] = "US" THEN UsText(c[2]) ELSE CaText(c[2]))
  /\ pc = "start"
  /\ lines = <<>>
  /\ i = 0
  /\ seen = {}
  /\ stations = <<>>
  /\ origin = <<>>
  /\ result = <<>>
  /\ FirstCall
  /\ AppOff

\* the caller calls an adapter again after a call has returned; the locals
\* of the returned call are whatever that call left
CallAgain ==
  /\ pc = "done" /\ calls < MaxCalls
  /\ \E c \in CallOthers \cup {<<adapter, src>>}
                      \cup {<<history[h].adapter, history[h].src>> : h \in 1..Len(history)} :
       /\ adapter' = c[1]
       /\ src' = c[2]
       /\ fileContent' = (IF c[1] = "US" THEN UsText(c[2]) ELSE CaText(c[2]))
  /\ history' = Append(history, [adapter |-> adapter, src |-> src,
                                 text |-> fileContent, result |-> result])
  /\ calls' = calls + 1
  /\ pc' = "start"
  /\ UNCHANGED <<lines, i, seen, stations, origin, result, appVars>>

NextCalls == Next \/ CallAgain

SpecCalls == InitCalls /\ [][NextCalls]_vars

----------------------------------------------------------------------------
(* App: the effect that loads the station data on mount.  loadData runs     *)
(* from one await to the next in one step; an awaited promise resolves or   *)
(* rejects; the component can unmount between any two steps.                *)

\* the for loop of parseStationData from position k of lines on
RECURSIVE UsLoop(_, _, _, _)
UsLoop(ls, k, st, sn) ==
  IF k > Len(ls) THEN st
  ELSE LET r == UsLine(ls[k], sn)
       IN  UsLoop(ls, k + 1, st \o r.push, r.seen)

parseStationData(text) == UsLoop(Split(Trim(text), "\n"), 1, <<>>, {})

\* the for loop of parseCanadianStationData from position k of lines on
RECURSIVE CaLoop(_, _, _)
CaLoop(ls, k, map) ==
  IF k > Len(ls) THEN map
  ELSE CaLoop(ls, k + 1, CaLine(ls[k], map).map)

parseCanadianStationData(text) == CaLoop(Split(Trim(text), "\n"), 2, <<>>)

FailureBanner == "Failed to load station data. Please refresh the page."

\* a US line whose id is the id of the Canadian row CaBase
UsCbc == [UsBase EXCEPT !.callSign = <<"C", "B", "C">>, !.frequency = <<"5", "4", "0", " ", " ", " ", "k", "H", "z">>]

\* the body of a response that is not a station file
NotFoundPage == <<"<", "!", "d", "o", "c", "t", "y", "p", "e", " ", "h", "t", "m", "l", ">">>

\* bodies of the response to fetch('/amRadioSta.txt')
UsResponses ==
  {UsText(s) : s \in {<<>>, <<UsBase>>, <<UsCbc>>, <<UsBase, UsOther>>,
                      <<UsCbc, UsBase>>, <<[UsBase EXCEPT !.len = 10]>>}}
  \cup {NotFoundPage}

\* bodies of the response to fetch('/canadianStations.csv')
CaResponses ==
  {CaText(s) : s \in {<<>>, <<CaBase>>, <<CaOther>>, <<CaBase, CaOther>>,
                      <<CaOther, CaBase>>, <<[CaBase EXCEPT !.ncols = 6]>>}}
  \cup {NotFoundPage}

AppMergeCaFirst(us, ca) == ca \o us

\* const allStations = [...usStations, ...caStations]
AppMerge(us, ca) == us \o ca

AppAlwaysUpdates(mounted) == TRUE

\* if (isMounted)
AppMayUpdate(mounted) == mounted

\* the setters invoked under the guard
Invoke(setters) ==
  IF AppMayUpdate(isMounted) THEN setterCalls \o setters ELSE setterCalls

adapterVars ==
  <<adapter, src, fileContent, pc, lines, i, seen, stations, origin, result,
    callVars>>

\* no adapter call of its own is part of the run: App calls the adapters
\* inside its steps
AdaptersOff ==
  /\ adapter = "none" /\ src = <<>> /\ fileContent = <<>> /\ pc = "off"
  /\ lines = <<>> /\ i = 0 /\ seen = {} /\ stations = <<>> /\ origin = <<>>
  /\ result = <<>> /\ FirstCall

\* App has rendered once: the useState initial values, the effect not yet run
InitApp ==
  /\ AdaptersOff
  /\ appPc = "effect"
  /\ isMounted = FALSE
  /\ loading = TRUE
  /\ error = "null"
  /\ appStations = <<>>
  /\ usText = <<>> /\ usStations = <<>>
  /\ caText = <<>> /\ caStations = <<>>
  /\ setterCalls = <<>>

\* the effect runs: let isMounted = true, then loadData() up to its first
\* await
RunEffect ==
  /\ appPc = "effect"
  /\ isMounted' = TRUE
  /\ loading' = TRUE
  /\ setterCalls' = Append(setterCalls, "setLoading")
  /\ appPc' = "fetchUs"
  /\ UNCHANGED <<error, appStations, usText, usStations, caText, caStations>>
  /\ UNCHANGED adapterVars

\* await fetch('/amRadioSta.txt') resolves
FetchUs ==
  /\ appPc = "fetchUs"
  /\ appPc' = "textUs"
  /\ UNCHANGED <<isMounted, loading, error, appStations, usText, usStations,
                 caText, caStations, setterCalls, adapterVars>>

\* await usResponse.text() resolves: the US text is parsed and the Canadian
\* file is fetched
TextUs ==
  /\ appPc = "textUs"
  /\ \E t \in UsResponses :
       /\ usText' = t
       /\ usStations' = parseStationData(t)
  /\ appPc' = "fetchCa"
  /\ UNCHANGED <<isMounted, loading, error, appStations, caText, caStations,
                 setterCalls, adapterVars>>

\* await fetch('/canadianStations.csv') resolves
FetchCa ==
  /\ appPc = "fetchCa"
  /\ appPc' = "textCa"
  /\ UNCHANGED <<isMounted, loading, error, appStations, usText, usStations,
                 caText, caStations, setterCalls, adapterVars>>

\* await caResponse.text() resolves: the Canadian text is parsed, the two
\* arrays are combined, and the try and finally blocks run to their end
TextCa ==
  /\ appPc = "textCa"
  /\ \E t \in CaResponses :
       LET parsed == parseCanadianStationData(t)
       IN  /\ caText' = t
           /\ caStations' = parsed
           /\ appStations' = IF AppMayUpdate(isMounted)
                             THEN AppMerge(usStations, parsed)
                             ELSE appStations
  /\ error' = IF AppMayUpdate(isMounted) THEN "null" ELSE error
  /\ loading' = IF AppMayUpdate(isMounted) THEN FALSE ELSE loading
  /\ setterCalls' = Invoke(<<"setStations", "setError", "setLoading">>)
  /\ appPc' = "done"
  /\ UNCHANGED <<isMounted, usText, usStations, adapterVars>>

\* the awaited promise rejects: the catch and finally blocks run
Rejected ==
  /\ appPc \in {"fetchUs", "textUs", "fetchCa", "textCa"}
  /\ error' = IF AppMayUpdate(isMounted) THEN FailureBanner ELSE error
  /\ loading' = IF AppMayUpdate(isMounted) THEN FALSE ELSE loading
  /\ setterCalls' = Invoke(<<"setError", "setLoading">>)
  /\ appPc' = "failed"
  /\ UNCHANGED <<isMounted, appStations, usText, usStations, caText,
                 caStations, adapterVars>>

\* the component unmounts: the cleanup of the effect runs
Unmount ==
  /\ appPc # "effect" /\ isMounted
  /\ isMounted' = FALSE
  /\ UNCHANGED <<appPc, loading, error, appStations, usText, usStations,
                 caText, caStations, setterCalls, adapterVars>>

NextApp ==
  RunEffect \/ FetchUs \/ TextUs \/ FetchCa \/ TextCa \/ Rejected \/ Unmount

SpecApp == InitApp /\ [][NextApp]_vars

\* The control flow of the effect.  React runs the effect after the render,
\* and a promise loadData awaits is settled, one way or the other.
Settles ==
  /\ appPc \in {"effect", "fetchUs", "textUs", "fetchCa", "textCa"}
  /\ appPc' \in {"fetchUs", "textUs", "fetchCa", "textCa", "done", "failed"}

FairSpecApp == SpecApp /\ WF_appPc(Settles)

----------------------------------------------------------------------------
(* What the input entries denote, read off the entries themselves.          *)

Done(a) == adapter = a /\ pc = "done"

Count(S) == Cardinality(S)

\* positions of result stored by line k of lines
From(k) == {m \in 1..Len(result) : origin[m] = k}

\* The whole text is trimmed before it is split: a first line that starts
\* with white space and a last line that ends with white space do not reach
\* the loop as they stand in the text.
UsIntact(k) ==
  /\ k = 1 => src[k].lead \notin WhiteSpace
  /\ k = Len(src) => src[k].tail \notin WhiteSpace

UsAllIntact == \A k \in 1..Len(src) : UsIntact(k)

UsLong(e) == e.len >= MinLineLen

UsDay(e) == e.band = Daytime

UsAnchored(e) == e.country = UsAnchor /\ e.nMark = NAnchor

InRange(x, lo, hi) == ~x.nan /\ x.d = 1 /\ lo <= x.n /\ x.n <= hi

UsDegreesInRange(e) ==
  /\ Len(e.lat) >= 3 /\ InRange(e.lat[1].val, 0, 90)
  /\ Len(e.lon) >= 3 /\ InRange(e.lon[1].val, 0, 180)

UsWellFormed(e) == UsLong(e) /\ UsDay(e) /\ UsAnchored(e) /\ UsDegreesInRange(e)

\* an intact line of length >= 250 containing "Daytime" with the call sign cs
UsClaims(k, cs) ==
  UsIntact(k) /\ UsLong(src[k]) /\ UsDay(src[k]) /\ src[k].callSign = cs

UsFirstOfCallSign(k) == \A j \in 1..(k - 1) : ~UsClaims(j, src[k].callSign)

UsExpectedId(e) == e.callSign \o <<"-">> \o e.frequency

\* In C1 and C2 a line is a line of the loop, that is an element of lines;
\* entry k describes lines[k] when UsIntact(k).

\* C1 as stated: every well-formed line yields exactly one record, with
\* id = callSign + "-" + frequency.
C1_Original ==
  Done("US") =>
    \A k \in 1..Len(src) :
      UsWellFormed(src[k]) /\ UsIntact(k) =>
        /\ Count(From(k)) = 1
        /\ \A m \in From(k) : result[m].id = UsExpectedId(src[k])

\* C1 amended: every well-formed line whose call sign is not that of an
\* earlier line of length >= 250 containing "Daytime" yields exactly one
\* record, with id = callSign + "-" + frequency.
C1_Theorem ==
  Done("US") =>
    \A k \in 1..Len(src) :
      UsWellFormed(src[k]) /\ UsIntact(k) /\ UsFirstOfCallSign(k) =>
        /\ Count(From(k)) = 1
        /\ \A m \in From(k) : result[m].id = UsExpectedId(src[k])

C1_Witness ==
  /\ Done("US") /\ Len(src) = 2
  /\ \A k \in 1..2 : UsWellFormed(src[k]) /\ UsIntact(k)
  /\ src[1].callSign # src[2].callSign
  /\ Len(result) = 2

\* the lines of length >= 250 containing "Daytime" that share the call sign cs
UsGroup(cs) == {k \in 1..Len(src) : UsClaims(k, cs)}

Least(S) == CHOOSE k \in S : \A j \in S : k <= j

UsWithCallSign(cs) == {m \in 1..Len(result) : result[m].callSign = cs}

\* C2 as stated: when two or more lines of length >= 250 containing
\* "Daytime" share a call sign, the output has exactly one record with that
\* call sign, built from the first of them.
C2_Original ==
  Done("US") /\ UsAllIntact =>
    \A k \in 1..Len(src) :
      LET cs == src[k].callSign
      IN  Count(UsGroup(cs)) >= 2 =>
            /\ Count(UsWithCallSign(cs)) = 1
            /\ \A m \in UsWithCallSign(cs) : origin[m] = Least(UsGroup(cs))
            /\ \A j \in UsGroup(cs) : j # Least(UsGroup(cs)) => From(j) = {}

\* C2 amended: when two or more lines of length
\* >= 250 containing "Daytime" share a call sign, the output has at most one
\* record with that call sign; if it has one, it is built from the first of
\* those lines; every later one contributes nothing.
C2_Theorem ==
  Done("US") /\ UsAllIntact =>
    \A k \in 1..Len(src) :
      LET cs == src[k].callSign
      IN  Count(UsGroup(cs)) >= 2 =>
            /\ Count(UsWithCallSign(cs)) <= 1
            /\ \A m \in UsWithCallSign(cs) :
                 /\ origin[m] = Least(UsGroup(cs))
                 /\ result[m].frequency = src[origin[m]].frequency
            /\ \A j \in UsGroup(cs) : j # Least(UsGroup(cs)) => From(j) = {}

C2_Witness ==
  /\ Done("US") /\ Len(src) = 2 /\ UsAllIntact
  /\ UsGroup(src[1].callSign) = {1, 2}
  /\ UsWellFormed(src[1]) /\ UsWellFormed(src[2])
  /\ src[1].frequency # src[2].frequency
  /\ Len(result) = 1

\* a row the Canadian adapter accepts
CaAccepted(e) ==
  /\ e.kind = "data" /\ e.ncols = 7
  /\ ~e.lat.val.nan /\ ~e.lon.val.nan /\ ~e.power.val.nan
  /\ e.callSign # <<>>
  /\ ~(e.lat.val.n = 0 /\ e.lon.val.n = 0)

CaKey(e) == e.base \o <<"-">> \o e.khz \o <<" ", " ", " ", "k", "H", "z">>

CaGroup(key) == {k \in 1..Len(src) : CaAccepted(src[k]) /\ CaKey(src[k]) = key}

\* the first row of the group that reaches the group's greatest power
CaBest(G) ==
  Least({k \in G : \A j \in G : ~NumLt(src[k].power.val, src[j].power.val)})

CaExpectedOperator(e) == IF e.licensee = <<>> THEN DefaultLicensee ELSE e.licensee

CaWithId(key) == {m \in 1..Len(result) : result[m].id = key}

\* C3: for every key baseCallSign+frequency of an accepted row the output
\* has exactly one record with that id; its power is the greatest power of
\* the accepted rows with that key and its lat, lon and operator are those
\* of the first row that reaches that power.
C3_Theorem ==
  Done("CA") =>
    \A k \in 1..Len(src) :
      CaAccepted(src[k]) =>
        LET key == CaKey(src[k])
            best == src[CaBest(CaGroup(key))]
        IN  /\ Count(CaWithId(key)) = 1
            /\ \A m \in CaWithId(key) :
                 /\ NumEq(NumMul(result[m].power, 1000), best.power.val)
                 /\ result[m].lat = best.lat.val
                 /\ result[m].lon = best.lon.val
                 /\ result[m].operator = CaExpectedOperator(best)

\* two accepted rows share a key and the later one has the same power but
\* another licensee
C3_Witness ==
  /\ Done("CA") /\ Len(src) = 2
  /\ CaAccepted(src[1]) /\ CaAccepted(src[2])
  /\ CaKey(src[1]) = CaKey(src[2])
  /\ NumEq(src[1].power.val, src[2].power.val)
  /\ src[1].licensee # src[2].licensee
  /\ Len(result) = 1

\* C4: no two records returned by one call of an adapter share an id.
C4_Claim ==
  pc = "done" =>
    \A m1, m2 \in 1..Len(result) : m1 # m2 => result[m1].id # result[m2].id

AtLeast(x, k) == ~x.nan /\ x.n >= k * x.d

AtMost(x, k) == ~x.nan /\ x.n <= k * x.d

\* C5: every record returned by an adapter has a numeric lat with
\* -90 <= lat <= 90.
C5_Claim ==
  pc = "done" =>
    \A m \in 1..Len(result) :
      AtLeast(result[m].lat, -90) /\ AtMost(result[m].lat, 90)

\* C6: every record returned by the US adapter has lon <= 0.
C6_Claim ==
  Done("US") => \A m \in 1..Len(result) : AtMost(result[m].lon, 0)

\* C7: every record returned by an adapter has a power that is a number
\* and is >= 0.
C7_Claim ==
  pc = "done" => \A m \in 1..Len(result) : AtLeast(result[m].power, 0)

\* a US line that passes every check other than the parse of its power
UsEmits(k) == UsWellFormed(src[k]) /\ UsIntact(k) /\ UsFirstOfCallSign(k)

UsPowerUnparsable(e) == e.power.val.nan \/ e.unit # KwMarker

\* a Canadian row that passes every check other than the parse of its power
CaPowerUnparsable(e) ==
  /\ e.kind = "data" /\ e.ncols = 7
  /\ ~e.lat.val.nan /\ ~e.lon.val.nan /\ e.power.val.nan
  /\ e.callSign # <<>>
  /\ ~(e.lat.val.n = 0 /\ e.lon.val.n = 0)

HasZeroPower(k) == \E m \in From(k) : result[m].power = IntNum(0)

C8_UsPart ==
  Done("US") =>
    \A k \in 1..Len(src) :
      UsEmits(k) /\ UsPowerUnparsable(src[k]) => HasZeroPower(k)

\* C8 as stated: in both adapters a line or row that passes every other
\* check but whose power cannot be parsed still produces its record, with
\* power = 0.
C8_Original ==
  /\ C8_UsPart
  /\ Done("CA") =>
       \A k \in 1..Len(src) : CaPowerUnparsable(src[k]) => HasZeroPower(k + 1)

\* C8 amended: in the US adapter a line that passes every other check but
\* whose power cannot be parsed (no "kW" marker, or a non-numeric token
\* before it) still produces its record, with power = 0; in the Canadian
\* adapter a row whose Power(W) column cannot be parsed produces no record.
C8_Theorem ==
  /\ C8_UsPart
  /\ Done("CA") =>
       \A k \in 1..Len(src) : CaPowerUnparsable(src[k]) => From(k + 1) = {}

\* a line whose token before "kW" is not a number has stored a record
C8_Witness ==
  /\ Done("US")
  /\ \E k \in 1..Len(src) :
       /\ UsEmits(k) /\ src[k].unit = KwMarker /\ src[k].power.val.nan
       /\ HasZeroPower(k)

AllNumeric(toks) == Len(toks) >= 3 /\ \A t \in 1..3 : ~toks[t].val.nan

\* C9: the US adapter returns a record only for a line whose latitude and
\* longitude triplets have three numeric tokens with latitude degrees in
\* [0, 90] and longitude degrees in [0, 180]; no returned record has a NaN
\* lat or lon.
C9_Claim ==
  Done("US") =>
    \A m \in 1..Len(result) :
      LET e == src[origin[m]]
      IN  /\ AllNumeric(e.lat) /\ AllNumeric(e.lon)
          /\ UsDegreesInRange(e)
          /\ ~result[m].lat.nan /\ ~result[m].lon.nan

CaRejected(e) ==
  \/ e.callSign = <<>>
  \/ e.lat.val.nan \/ e.lon.val.nan
  \/ (e.lat.val.n = 0 /\ e.lon.val.n = 0)

\* C10: every record returned by the Canadian adapter has a non-empty
\* callSign, numeric lat and lon, and is not at (0, 0); a row with an empty
\* call sign, an unparsable Lat or Lon, or lat = 0 and lon = 0 never stores
\* a record.
C10_Claim ==
  Done("CA") =>
    /\ \A m \in 1..Len(result) :
         /\ result[m].callSign # <<>>
         /\ ~result[m].lat.nan /\ ~result[m].lon.nan
         /\ ~(result[m].lat.n = 0 /\ result[m].lon.n = 0)
    /\ \A k \in 1..Len(src) :
         src[k].kind = "data" /\ CaRejected(src[k]) => From(k + 1) = {}

\* the call has returned after its loop went through every line, and no line
\* stored more than one record
ReturnedWhole ==
  /\ pc = "done" /\ i = Len(lines) + 1
  /\ result = stations
  /\ \A k \in 1..Len(lines) : Count(From(k)) <= 1
  /\ \A m \in 1..Len(result) : origin[m] \in 1..Len(lines)
  /\ Len(result) <= Len(src)

\* C11: for every input text each adapter terminates and returns a finite
\* sequence with at most one record per input line or row; a line that fails
\* a check does not keep the remaining lines from being processed.
C11_Theorem == <>ReturnedWhole

\* a line shorter than the field windows and a line without the " US "
\* anchor were skipped, and the line after them stored its record
C11_Witness ==
  /\ pc = "done" /\ adapter = "US" /\ Len(src) = 2
  /\ (src[1].len < 23 \/ src[1].country # UsAnchor)
  /\ From(1) = {} /\ Count(From(2)) = 1

\* C12: a call on a text returns the sequence an earlier call on the same
\* text returned, whatever calls were made in between, and the call on a
\* given text returns the records of that text alone.
C12_Theorem ==
  pc = "done" =>
    /\ \A h \in 1..Len(history) :
         history[h].adapter = adapter /\ history[h].text = fileContent =>
           history[h].result = result
    /\ adapter = "US" /\ src = <<UsBase>> =>
         Len(result) = 1 /\ result[1].id = UsExpectedId(UsBase)
    /\ adapter = "CA" /\ src = <<CaBase>> =>
         Len(result) = 1 /\ result[1].id = CaKey(CaBase)

\* the third call repeats the first after a call on another text with the
\* same call sign, and both returned a record
C12_Witness ==
  /\ pc = "done" /\ calls = 3 /\ adapter = "US"
  /\ history[1].adapter = "US" /\ history[2].adapter = "US"
  /\ history[1].text = fileContent /\ history[2].text # fileContent
  /\ Len(history[2].src) = 1 /\ Len(src) = 1
  /\ history[2].src[1].callSign = src[1].callSign
  /\ result # <<>> /\ history[2].result # <<>>

AllDigits(s) == s # <<>> /\ \A c \in 1..Len(s) : IsDigit(s[c])

\* C13: every record returned by the Canadian adapter has as frequency the
\* decimal integer round(frequencyMHz * 1000) followed by three spaces and
\* "kHz", and as power powerW / 1000; a row with frequency 0.54 and power
\* 50000 gives "540   kHz" and 50.
C13_Claim ==
  Done("CA") =>
    \A m \in 1..Len(result) :
      LET e == src[origin[m] - 1]
      IN  /\ AllDigits(e.khz)
          /\ result[m].frequency = e.khz \o KhzSuffix
          /\ NumEq(NumMul(result[m].power, 1000), e.power.val)
          /\ e = CaBase =>
               /\ result[m].frequency = <<"5", "4", "0", " ", " ", " ", "k", "H", "z">>
               /\ result[m].power = IntNum(50)


\* the line of the scenario: latitude triplet "40 77 0.0", longitude triplet
\* "73 58 0.0"
C14_Case(e) ==
  /\ TokTexts(e.lat) = <<<<"4", "0">>, <<"7", "7">>, <<"0", ".", "0">>>>
  /\ TokTexts(e.lon) = <<<<"7", "3">>, <<"5", "8">>, <<"0", ".", "0">>>>

\* |x - milli / 1000| <= 0.001
Near(x, milli) == ~x.nan /\ Abs(x.n * 1000 - milli * x.d) <= x.d

\* x * 3600 = arcsec
ArcSeconds(x, arcsec) == ~x.nan /\ x.n * 3600 = arcsec * x.d

\* C14 as stated: an otherwise valid US line with latitude triplet
\* "40 77 0.0" and longitude triplet "73 58 0.0" produces a record with lat
\* within 0.001 of 40.966 and lon within 0.001 of -73.967.
C14_Original ==
  Done("US") =>
    \A k \in 1..Len(src) :
      UsEmits(k) /\ C14_Case(src[k]) =>
        \E m \in From(k) :
          /\ Near(result[m].lat, 40966)
          /\ Near(result[m].lon, -73967)

\* C14 amended: such a line produces a record with lat within 0.001 of 41.283
\* (40 + 77/60, 148620 arc-seconds) and lon within 0.001 of -73.967
\* (-(73 + 58/60), -266280 arc-seconds).
C14_Theorem ==
  Done("US") =>
    \A k \in 1..Len(src) :
      UsEmits(k) /\ C14_Case(src[k]) =>
        \E m \in From(k) :
          /\ Near(result[m].lat, 41283) /\ ArcSeconds(result[m].lat, 148620)
          /\ Near(result[m].lon, -73967) /\ ArcSeconds(result[m].lon, -266280)

\* the line of the scenario has stored its record
C14_Witness ==
  /\ Done("US")
  /\ \E k \in 1..Len(src) :
       UsEmits(k) /\ C14_Case(src[k]) /\ From(k) # {}


\* line k of the input text as it stands between the newlines
RawLine(k) == Split(fileContent, "\n")[k]

\* C15: every record returned by the US adapter has as callSign the trimmed
\* characters [1,14) and as frequency the trimmed characters [14,23) of its
\* source line as that line stands in the input text, at every line position,
\* the first and the last included.
C15_Claim ==
  Done("US") =>
    \A m \in 1..Len(result) :
      /\ result[m].callSign = Trim(Substring(RawLine(origin[m]), 1, 14))
      /\ result[m].frequency = Trim(Substring(RawLine(origin[m]), 14, 23))
      /\ result[m].callSign = src[origin[m]].callSign
      /\ result[m].frequency = src[origin[m]].frequency


\* s holds two white-space characters in a row or two digits in a row
HasStopRun(s) ==
  \E k \in 1..(Len(s) - 1) :
    \/ s[k] \in WhiteSpace /\ s[k + 1] \in WhiteSpace
    \/ IsDigit(s[k]) /\ IsDigit(s[k + 1])

\* C16: for every record returned by the US adapter whose text after the
\* longitude window holds a run of two or more white-space characters or of
\* two or more digits, operator is the trimmed text before the first such
\* run, and so holds no such run; the first 60 characters are used only when
\* the text holds no run.  (Every checked line has the run of two blanks
\* before its power.)
C16_Claim ==
  Done("US") =>
    \A m \in 1..Len(result) :
      /\ result[m].operator = src[origin[m]].opCut
      /\ ~HasStopRun(result[m].operator)


\* the cleanup of the effect has run
Unmounted == appPc # "effect" /\ ~isMounted

\* outcome (a): both files were fetched and parsed
Loaded ==
  /\ appPc = "done" /\ error = "null"
  /\ usStations = parseStationData(usText)
  /\ caStations = parseCanadianStationData(caText)
  /\ Len(appStations) = Len(usStations) + Len(caStations)
  /\ \A m \in 1..Len(usStations) : appStations[m] = usStations[m]
  /\ \A m \in 1..Len(caStations) : appStations[Len(usStations) + m] = caStations[m]

\* outcome (b): something failed
Failed == appPc = "failed" /\ error = FailureBanner /\ appStations = <<>>

\* C17: while the component stays mounted loading eventually becomes false,
\* and when loading is false exactly one of two outcomes holds: (a) both
\* fetches and parses succeeded, error is null and stations is the US
\* adapter's output followed by the Canadian adapter's output, nothing
\* dropped or deduplicated; or (b) something failed, error is the banner text
\* and stations is still the empty list.
C17_Theorem ==
  /\ [](~loading => (Loaded \/ Failed) /\ ~(Loaded /\ Failed))
  /\ <>(Unmounted \/ ~loading)

\* the load ended with a US record and a Canadian record of the same id,
\* both in stations
C17_Witness ==
  /\ appPc = "done" /\ isMounted /\ ~loading
  /\ usStations # <<>> /\ caStations # <<>>
  /\ usStations[1].id = caStations[1].id
  /\ appStations[1] = usStations[1]
  /\ appStations[Len(usStations) + 1] = caStations[1]

\* C18: once the cleanup of the effect has set isMounted to false, loadData
\* invokes no setter and stations, error and loading keep their values,
\* whenever the unmount falls among the fetches' completions and failures.
C18_Theorem ==
  [][Unmounted =>
       /\ setterCalls' = setterCalls
       /\ appStations' = appStations /\ error' = error /\ loading' = loading]_vars

\* the component unmounted while the load was under way, both texts arrived
\* and were parsed, and nothing was published
C18_Witness ==
  /\ appPc = "done" /\ ~isMounted
  /\ usStations # <<>> /\ caStations # <<>>
  /\ setterCalls = <<"setLoading">>
  /\ loading /\ appStations = <<>> /\ error = "null"

====
